---- MODULE Spec2Model ----
(***************************************************************************)
(* A model of the on-disk copy-on-write B+tree of src/src/btree.rs:        *)
(* the pager file, the WAL root, and insert / search / delete as whole     *)
(* operations, each translated from its Rust code.                         *)
(***************************************************************************)
EXTENDS Integers, Sequences, FiniteSets, TLC

(***************************************************************************)
(* Bounds of the exploration.                                              *)
(***************************************************************************)
\* largest b parameter handed to the builder
MaxB == 2
\* keys are the one-byte strings with byte value 1..MaxKey (any-order workload)
MaxKey == 4
\* number of calls of an any-order run
MaxOps == 5
\* number of keys of the ascending workload (keys 1..MaxAscKey)
MaxAscKey == 9
\* number of delete calls of an ascending run
MaxAscDeletes == 1
\* number of calls that are made to hit an I/O error, per run
MaxFailures == 1
\* an injected I/O error hits the n-th pager call of an operation, n <= MaxFailAt
MaxFailAt == 6

(***************************************************************************)
(* Program constants.                                                      *)
(***************************************************************************)
PAGE_SIZE == 4096

\* Option<Offset>::None
NoOffset == 0 - 1
\* the key read back from a zero-filled key slot (trimmed to the empty string)
EmptyKey == 0

Ok == "Ok"
IOError == "IOError"
KeyNotFound == "KeyNotFound"
UnexpectedError == "UnexpectedError"
Panic == "Panic"

Keys == 1..MaxKey
AscKeys == 1..MaxAscKey
Bs == 1..MaxB

Min(a, b) == IF a <= b THEN a ELSE b
Max(a, b) == IF a >= b THEN a ELSE b

(***************************************************************************)
(* Vec helpers (0-based positions, as in the Rust code).                   *)
(***************************************************************************)
\* Vec::insert(i, x)
VecInsert(s, i, x) == SubSeq(s, 1, i) \o <<x>> \o SubSeq(s, i + 1, Len(s))
\* Vec::remove(i)
VecRemove(s, i) == SubSeq(s, 1, i) \o SubSeq(s, i + 2, Len(s))
\* the part Vec::split_off(at) leaves behind
VecHead(s, at) == SubSeq(s, 1, at)
\* the part Vec::split_off(at) returns
VecTail(s, at) == SubSeq(s, at + 1, Len(s))
\* s[i] = x
VecSet(s, i, x) == [s EXCEPT ![i + 1] = x]

\* Key / String ordering; one-byte keys compare by their byte
KeyLeq(a, b) == a <= b
KeyLt(a, b) == a < b

\* slice::binary_search over a sorted vector of keys: Ok(position of a match)
\* or Err(insertion point); .idx is what unwrap_or_else(|x| x) yields.  Among
\* several equal elements the standard library may return any one: pick says
\* whether this build returns the first or the last of them.
binary_search(ks, key, pick) ==
    LET matches == {i \in 1..Len(ks) : ks[i] = key}
        lower == Cardinality({i \in 1..Len(ks) : KeyLt(ks[i], key)})
    IN  IF matches = {} THEN [found |-> FALSE, idx |-> lower]
        ELSE [found |-> TRUE,
              idx |-> (CHOOSE i \in matches :
                          \A j \in matches : IF pick = "first" THEN i <= j ELSE i >= j) - 1]

PairKeys(pairs) == [i \in 1..Len(pairs) |-> pairs[i].key]

(***************************************************************************)
(* Nodes and pages.                                                        *)
(***************************************************************************)
KeyValuePair(key, idx) == [key |-> key, idx |-> idx]

\* Node::new(NodeType::Leaf(data, pairs), is_root, parent_offset)
LeafNode(data, pairs, is_root, parent) ==
    [kind |-> "Leaf", is_root |-> is_root, parent |-> parent,
     children |-> <<>>, keys |-> <<>>, data |-> data, pairs |-> pairs]

\* Node::new(NodeType::Internal(children, keys), is_root, parent_offset)
InternalNode(children, keys, is_root, parent) ==
    [kind |-> "Internal", is_root |-> is_root, parent |-> parent,
     children |-> children, keys |-> keys, data |-> NoOffset, pairs |-> <<>>]

\* what decoding yields for a page that holds no node
UnexpectedNode ==
    [kind |-> "Unexpected", is_root |-> FALSE, parent |-> NoOffset,
     children |-> <<>>, keys |-> <<>>, data |-> NoOffset, pairs |-> <<>>]

\* DataPage: the ordered list of values
DataPage(values) == [values |-> values]

\* Page::try_from(&Node): the page bytes, field by field
NodeToPage(node) ==
    [kind |-> node.kind, is_root |-> node.is_root,
     parent |-> IF node.parent = NoOffset THEN 0 ELSE node.parent,
     children |-> node.children, keys |-> node.keys,
     data |-> node.data, pairs |-> node.pairs, values |-> <<>>]

\* Page::try_from(&DataPage)
DataPageToPage(dp) ==
    [kind |-> "Data", is_root |-> FALSE, parent |-> 0,
     children |-> <<>>, keys |-> <<>>, data |-> NoOffset, pairs |-> <<>>,
     values |-> dp.values]

\* the page a failed read hands back (never looked at)
NoPage ==
    [kind |-> "None", is_root |-> FALSE, parent |-> 0,
     children |-> <<>>, keys |-> <<>>, data |-> NoOffset, pairs |-> <<>>,
     values |-> <<>>]

\* Node::try_from(Page)
PageToNode(page) ==
    LET parent_offset == IF page.is_root THEN NoOffset ELSE page.parent
        num_children == Len(page.children)
    IN  IF page.kind = "Internal"
        THEN InternalNode(page.children,
                          [i \in 1..Max(num_children - 1, 0) |->
                              IF i <= Len(page.keys) THEN page.keys[i] ELSE EmptyKey],
                          page.is_root, parent_offset)
        ELSE IF page.kind = "Leaf"
        THEN LeafNode(page.data, page.pairs, page.is_root, parent_offset)
        ELSE UnexpectedNode

\* DataPage::try_from(Page)
PageToDataPage(page) == DataPage(page.values)

(***************************************************************************)
(* Sequencing: the value v of one step, computed once, handed to the rest  *)
(* of the operation.                                                       *)
(***************************************************************************)
Then(v, Rest(_)) == CHOOSE y \in {Rest(x) : x \in {v}} : TRUE

(***************************************************************************)
(* The I/O context of one operation: the pager file and cursor, the WAL    *)
(* root, the error that ended the operation (Ok while it runs), the count  *)
(* of pager calls, the call that is to fail, the build's binary_search     *)
(* choice, and the log of what was read and written.                       *)
(***************************************************************************)
NewIo(f, c, w, failAt, pk) ==
    [file |-> f, cursor |-> c, wal |-> w, err |-> Ok, calls |-> 0,
     failAt |-> failAt, pick |-> pk, log |-> <<>>]

Fail(io, e) == IF io.err = Ok THEN [io EXCEPT !.err = e] ELSE io

PageIndex(offset) == (offset \div PAGE_SIZE) + 1

\* one pager call: the failAt-th one fails with an I/O error
PagerCall(io) ==
    LET n == io.calls + 1
    IN  IF n = io.failAt THEN [io EXCEPT !.calls = n, !.err = IOError]
        ELSE [io EXCEPT !.calls = n]

\* Pager::get_page
get_page(io, offset) ==
    IF io.err # Ok THEN [io |-> io, page |-> NoPage]
    ELSE Then(PagerCall(io), LAMBDA c :
             IF c.err # Ok THEN [io |-> c, page |-> NoPage]
             ELSE IF offset < 0 \/ offset % PAGE_SIZE # 0
                     \/ PageIndex(offset) > Len(c.file)
             THEN [io |-> Fail(c, IOError), page |-> NoPage]
             ELSE [io |-> [c EXCEPT !.log = Append(@, [ev |-> "read", off |-> offset])],
                   page |-> c.file[PageIndex(offset)]])

\* Pager::write_page
write_page(io, page) ==
    IF io.err # Ok THEN [io |-> io, off |-> NoOffset]
    ELSE Then(PagerCall(io), LAMBDA c :
             IF c.err # Ok THEN [io |-> c, off |-> NoOffset]
             ELSE [io |-> [c EXCEPT !.file = Append(@, page),
                                    !.cursor = @ + PAGE_SIZE,
                                    !.log = Append(@, [ev |-> "append", off |-> c.cursor])],
                   off |-> c.cursor])

\* an overwrite that leaves the cursor behind the page it wrote
write_page_at_offset_moves_cursor(io, page, offset) ==
    IF io.err # Ok THEN io
    ELSE Then(PagerCall(io), LAMBDA c :
             IF c.err # Ok THEN c
             ELSE IF offset < 0 \/ PageIndex(offset) > Len(c.file)
             THEN Fail(c, IOError)
             ELSE [c EXCEPT !.file = [@ EXCEPT ![PageIndex(offset)] = page],
                            !.cursor = offset + PAGE_SIZE,
                            !.log = Append(@, [ev |-> "overwrite", off |-> offset])])

\* Pager::write_page_at_offset
write_page_at_offset(io, page, offset) ==
    IF io.err # Ok THEN io
    ELSE Then(PagerCall(io), LAMBDA c :
             IF c.err # Ok THEN c
             ELSE IF offset < 0 \/ PageIndex(offset) > Len(c.file)
             THEN Fail(c, IOError)
             ELSE [c EXCEPT !.file = [@ EXCEPT ![PageIndex(offset)] = page],
                            !.log = Append(@, [ev |-> "overwrite", off |-> offset])])

\* Wal::set_root
set_root(io, offset) ==
    IF io.err # Ok THEN io
    ELSE [io EXCEPT !.wal = offset,
                    !.log = Append(@, [ev |-> "set_root", off |-> offset])]

(***************************************************************************)
(* DataPage operations.                                                    *)
(***************************************************************************)
\* DataPage::insert(value) -> index of the appended value
DataPageInsert(dp, value) ==
    [page |-> DataPage(Append(dp.values, value)), idx |-> Len(dp.values)]

\* DataPage::get(idx)
DataPageGet(dp, idx) ==
    IF idx >= 0 /\ idx < Len(dp.values)
    THEN [some |-> TRUE, value |-> dp.values[idx + 1]]
    ELSE [some |-> FALSE, value |-> 0]

\* DataPage::split(b) -> (left, right)
DataPageSplit(dp, b) ==
    [left |-> DataPage(VecHead(dp.values, Min(b, Len(dp.values)))),
     right |-> DataPage(VecTail(dp.values, Min(b, Len(dp.values))))]

(***************************************************************************)
(* BTree predicates.                                                       *)
(***************************************************************************)
NodeLen(node) == IF node.kind = "Leaf" THEN Len(node.pairs) ELSE Len(node.keys)

\* a fullness test that is late by one key
is_node_full_late(node, b) == NodeLen(node) = 2 * b

is_node_full(node, b) == NodeLen(node) = 2 * b - 1

is_node_underflow(node, b) == NodeLen(node) < b - 1 /\ ~node.is_root

(***************************************************************************)
(* Node::split                                                             *)
(***************************************************************************)
\* the smallest idx among the sibling pairs (usize::MAX when there are none)
MinIdx(pairs) ==
    IF pairs = <<>> THEN 0
    ELSE CHOOSE m \in {pairs[i].idx : i \in 1..Len(pairs)} :
            \A i \in 1..Len(pairs) : m <= pairs[i].idx

\* sibling pairs that keep the idx they had in the node
renumber_keeps_idx(pairs) == pairs

\* the sibling pairs with the minimum subtracted from every idx
Renumber(pairs) ==
    Then(MinIdx(pairs), LAMBDA min :
        [i \in 1..Len(pairs) |-> KeyValuePair(pairs[i].key, pairs[i].idx - min)])

NoSplit(io, node) ==
    [io |-> io, node |-> node, median |-> EmptyKey, sibling |-> UnexpectedNode]

\* an internal split that hands one child too many to the sibling
split_internal_uneven(io, node, b) ==
    IF b - 1 > Len(node.keys) \/ VecTail(node.keys, b - 1) = <<>>
       \/ b > Len(node.children)
    THEN NoSplit(Fail(io, Panic), node)
    ELSE LET tail == VecTail(node.keys, b - 1)
         IN  [io |-> io,
              node |-> [node EXCEPT !.keys = VecHead(node.keys, b - 1),
                                    !.children = VecHead(node.children, b - 1)],
              median |-> tail[1],
              sibling |-> InternalNode(VecTail(node.children, b - 1), VecRemove(tail, 0),
                                       FALSE, node.parent)]

\* an internal split whose sibling keeps the median key
split_internal_keeps_median(io, node, b) ==
    IF b - 1 > Len(node.keys) \/ VecTail(node.keys, b - 1) = <<>>
       \/ b > Len(node.children)
    THEN NoSplit(Fail(io, Panic), node)
    ELSE LET tail == VecTail(node.keys, b - 1)
         IN  [io |-> io,
              node |-> [node EXCEPT !.keys = VecHead(node.keys, b - 1),
                                    !.children = VecHead(node.children, b)],
              median |-> tail[1],
              sibling |-> InternalNode(VecTail(node.children, b), tail,
                                       FALSE, node.parent)]

split_internal(io, node, b) ==
    IF b - 1 > Len(node.keys) \/ VecTail(node.keys, b - 1) = <<>>
       \/ b > Len(node.children)
    THEN NoSplit(Fail(io, Panic), node)
    ELSE LET tail == VecTail(node.keys, b - 1)
             median_key == tail[1]
             sibling_keys == VecRemove(tail, 0)
             sibling_children == VecTail(node.children, b)
         IN  [io |-> io,
              node |-> [node EXCEPT !.keys = VecHead(node.keys, b - 1),
                                    !.children = VecHead(node.children, b)],
              median |-> median_key,
              sibling |-> InternalNode(sibling_children, sibling_keys, FALSE, node.parent)]

\* a leaf split that hands the parent the first key as the median
split_leaf_first_key(io, node, b) ==
    IF b > Len(node.pairs) THEN NoSplit(Fail(io, Panic), node)
    ELSE IF b - 1 >= Len(VecHead(node.pairs, b)) THEN NoSplit(Fail(io, UnexpectedError), node)
    ELSE
    Then(get_page(io, node.data), LAMBDA r :
    Then(DataPageSplit(PageToDataPage(r.page), b), LAMBDA halves :
    Then(write_page_at_offset(r.io, DataPageToPage(halves.left), node.data), LAMBDA io2 :
    Then(write_page(io2, DataPageToPage(halves.right)), LAMBDA w :
        IF w.io.err # Ok THEN NoSplit(w.io, node)
        ELSE [io |-> w.io,
              node |-> [node EXCEPT !.pairs = VecHead(node.pairs, b)],
              median |-> node.pairs[1].key,
              sibling |-> LeafNode(w.off, Renumber(VecTail(node.pairs, b)),
                                   FALSE, node.parent)]))))

split_leaf(io, node, b) ==
    IF b > Len(node.pairs) THEN NoSplit(Fail(io, Panic), node)
    ELSE IF b - 1 >= Len(VecHead(node.pairs, b)) THEN NoSplit(Fail(io, UnexpectedError), node)
    ELSE
    Then(get_page(io, node.data), LAMBDA r :
    Then(DataPageSplit(PageToDataPage(r.page), b), LAMBDA halves :
    Then(write_page_at_offset(r.io, DataPageToPage(halves.left), node.data), LAMBDA io2 :
    Then(write_page(io2, DataPageToPage(halves.right)), LAMBDA w :
        IF w.io.err # Ok THEN NoSplit(w.io, node)
        ELSE [io |-> w.io,
              node |-> [node EXCEPT !.pairs = VecHead(node.pairs, b)],
              median |-> node.pairs[b].key,
              sibling |-> LeafNode(w.off, Renumber(VecTail(node.pairs, b)),
                                   FALSE, node.parent)]))))

split(io, node, b) ==
    IF io.err # Ok THEN NoSplit(io, node)
    ELSE IF node.kind = "Internal" THEN split_internal(io, node, b)
    ELSE IF node.kind = "Leaf" THEN split_leaf(io, node, b)
    ELSE NoSplit(Fail(io, UnexpectedError), node)

(***************************************************************************)
(* BTree::insert                                                           *)
(***************************************************************************)
\* a leaf arm that puts the new pair after all the others
insert_leaf_at_end(io, node, node_offset, key, value) ==
    Then(get_page(io, node.data), LAMBDA r :
    Then(DataPageInsert(PageToDataPage(r.page), value), LAMBDA ins :
    Then(write_page(r.io, DataPageToPage(ins.page)), LAMBDA w :
        write_page_at_offset(
            w.io,
            NodeToPage([node EXCEPT
                          !.data = w.off,
                          !.pairs = Append(node.pairs, KeyValuePair(key, ins.idx))]),
            node_offset))))

\* a leaf arm that replaces the pair of a key the leaf already holds
insert_leaf_replaces(io, node, node_offset, key, value) ==
    Then(binary_search(PairKeys(node.pairs), key, io.pick), LAMBDA bs :
    Then(get_page(io, node.data), LAMBDA r :
    Then(DataPageInsert(PageToDataPage(r.page), value), LAMBDA ins :
    Then(write_page(r.io, DataPageToPage(ins.page)), LAMBDA w :
        write_page_at_offset(
            w.io,
            NodeToPage([node EXCEPT
                          !.data = w.off,
                          !.pairs = IF bs.found
                                    THEN VecSet(node.pairs, bs.idx, KeyValuePair(key, ins.idx))
                                    ELSE VecInsert(node.pairs, bs.idx,
                                                   KeyValuePair(key, ins.idx))]),
            node_offset)))))

\* insert_non_full, NodeType::Leaf arm
insert_leaf(io, node, node_offset, key, value) ==
    Then(binary_search(PairKeys(node.pairs), key, io.pick).idx, LAMBDA idx :
    Then(get_page(io, node.data), LAMBDA r :
    Then(DataPageInsert(PageToDataPage(r.page), value), LAMBDA ins :
    Then(write_page(r.io, DataPageToPage(ins.page)), LAMBDA w :
        write_page_at_offset(
            w.io,
            NodeToPage([node EXCEPT
                          !.data = w.off,
                          !.pairs = VecInsert(node.pairs, idx, KeyValuePair(key, ins.idx))]),
            node_offset)))))

\* entry of insert_non_full: the log records the node it is handed and
\* whether that node is full
Entered(io, node, node_offset, b) ==
    IF io.err # Ok THEN io
    ELSE [io EXCEPT !.log = Append(@, [ev |-> IF is_node_full(node, b)
                                              THEN "enter_full" ELSE "enter",
                                       off |-> node_offset])]

RECURSIVE insert_non_full(_, _, _, _, _, _)
insert_non_full(io0, node, node_offset, key, value, b) ==
    Then(Entered(io0, node, node_offset, b), LAMBDA io :
    IF io.err # Ok THEN io
    ELSE IF node.kind = "Leaf" THEN insert_leaf(io, node, node_offset, key, value)
    ELSE IF node.kind = "Internal" THEN
        Then(binary_search(node.keys, key, io.pick).idx, LAMBDA idx :
        IF idx >= Len(node.children) THEN Fail(io, UnexpectedError)
        ELSE
        Then(get_page(io, node.children[idx + 1]), LAMBDA r :
        Then(PageToNode(r.page), LAMBDA child :
        IF r.io.err # Ok THEN r.io
        ELSE IF child.kind = "Unexpected" THEN Fail(r.io, UnexpectedError)
        ELSE
        Then(write_page(r.io, NodeToPage(child)), LAMBDA w :
        IF w.io.err # Ok THEN w.io
        ELSE
        LET new_child_offset == w.off
            children == VecSet(node.children, idx, new_child_offset)
        IN  IF is_node_full(child, b) THEN
                Then(split(w.io, child, b), LAMBDA s :
                Then(write_page_at_offset(s.io, NodeToPage(s.node), new_child_offset),
                     LAMBDA io2 :
                Then(write_page(io2, NodeToPage(s.sibling)), LAMBDA w2 :
                Then(write_page_at_offset(
                        w2.io,
                        NodeToPage([node EXCEPT
                                      !.children = VecInsert(children, idx + 1, w2.off),
                                      !.keys = VecInsert(node.keys, idx, s.median)]),
                        node_offset),
                     LAMBDA io3 :
                    IF KeyLeq(key, s.median)
                    THEN insert_non_full(io3, s.node, new_child_offset, key, value, b)
                    ELSE insert_non_full(io3, s.sibling, w2.off, key, value, b)))))
            ELSE
                Then(write_page_at_offset(w.io, NodeToPage([node EXCEPT !.children = children]),
                                          node_offset),
                     LAMBDA io2 :
                    insert_non_full(io2, child, new_child_offset, key, value, b))))))
    ELSE Fail(io, UnexpectedError))

\* a root split whose old root keeps its root flag
insert_split_root_keeps_flag(io, root, key, value, b) ==
    Then(write_page(io, NodeToPage(InternalNode(<<>>, <<>>, TRUE, NoOffset))), LAMBDA w :
    LET new_root_offset == w.off IN
    Then(split(w.io, [root EXCEPT !.parent = new_root_offset], b),
         LAMBDA s :
    Then(write_page(s.io, NodeToPage(s.node)), LAMBDA w2 :
    Then(write_page(w2.io, NodeToPage(s.sibling)), LAMBDA w3 :
    Then(InternalNode(<<w2.off, w3.off>>, <<s.median>>, TRUE, NoOffset), LAMBDA new_root :
    Then(write_page_at_offset(w3.io, NodeToPage(new_root), new_root_offset), LAMBDA io4 :
    Then(insert_non_full(io4, new_root, new_root_offset, key, value, b), LAMBDA io5 :
        set_root(io5, new_root_offset))))))))

\* insert, the arm that finds the root full
insert_split_root(io, root, key, value, b) ==
    Then(write_page(io, NodeToPage(InternalNode(<<>>, <<>>, TRUE, NoOffset))), LAMBDA w :
    LET new_root_offset == w.off IN
    Then(split(w.io, [root EXCEPT !.parent = new_root_offset, !.is_root = FALSE], b),
         LAMBDA s :
    Then(write_page(s.io, NodeToPage(s.node)), LAMBDA w2 :
    Then(write_page(w2.io, NodeToPage(s.sibling)), LAMBDA w3 :
    Then(InternalNode(<<w2.off, w3.off>>, <<s.median>>, TRUE, NoOffset), LAMBDA new_root :
    Then(write_page_at_offset(w3.io, NodeToPage(new_root), new_root_offset), LAMBDA io4 :
    Then(insert_non_full(io4, new_root, new_root_offset, key, value, b), LAMBDA io5 :
        set_root(io5, new_root_offset))))))))

\* an insert that treats a full root like any other root
insert_never_splits_root(io, key, value, b) ==
    Then(get_page(io, io.wal), LAMBDA r :
    Then(PageToNode(r.page), LAMBDA root :
        IF r.io.err # Ok THEN r.io
        ELSE IF root.kind = "Unexpected" THEN Fail(r.io, UnexpectedError)
        ELSE
            Then(write_page(r.io, NodeToPage(root)), LAMBDA w :
            Then(insert_non_full(w.io, root, w.off, key, value, b), LAMBDA io2 :
                set_root(io2, w.off)))))

\* an insert that works on the live root page instead of a copy of it
insert_in_place(io, key, value, b) ==
    Then(get_page(io, io.wal), LAMBDA r :
    Then(PageToNode(r.page), LAMBDA root :
        IF r.io.err # Ok THEN r.io
        ELSE IF root.kind = "Unexpected" THEN Fail(r.io, UnexpectedError)
        ELSE IF is_node_full(root, b) THEN insert_split_root(r.io, root, key, value, b)
        ELSE
            Then(insert_non_full(r.io, root, io.wal, key, value, b), LAMBDA io2 :
                set_root(io2, io.wal))))

insert(io, key, value, b) ==
    Then(get_page(io, io.wal), LAMBDA r :
    Then(PageToNode(r.page), LAMBDA root :
        IF r.io.err # Ok THEN r.io
        ELSE IF root.kind = "Unexpected" THEN Fail(r.io, UnexpectedError)
        ELSE IF is_node_full(root, b) THEN insert_split_root(r.io, root, key, value, b)
        ELSE
            Then(write_page(r.io, NodeToPage(root)), LAMBDA w :
            Then(insert_non_full(w.io, root, w.off, key, value, b), LAMBDA io2 :
                set_root(io2, w.off)))))

(***************************************************************************)
(* BTree::search                                                           *)
(***************************************************************************)
NoValue(io) == [io |-> io, value |-> 0]

RECURSIVE search_node(_, _, _)
search_node(io, node, key) ==
    IF io.err # Ok THEN NoValue(io)
    ELSE IF node.kind = "Internal" THEN
        Then(binary_search(node.keys, key, io.pick).idx, LAMBDA idx :
        IF idx >= Len(node.children) THEN NoValue(Fail(io, UnexpectedError))
        ELSE Then(get_page(io, node.children[idx + 1]), LAMBDA r :
                search_node(r.io, PageToNode(r.page), key)))
    ELSE IF node.kind = "Leaf" THEN
        Then(binary_search(PairKeys(node.pairs), key, io.pick), LAMBDA bs :
        IF ~bs.found THEN NoValue(Fail(io, KeyNotFound))
        ELSE
        Then(get_page(io, node.data), LAMBDA r :
        Then(DataPageGet(PageToDataPage(r.page), node.pairs[bs.idx + 1].idx), LAMBDA got :
            IF r.io.err # Ok THEN NoValue(r.io)
            ELSE IF ~got.some THEN NoValue(Fail(r.io, UnexpectedError))
            ELSE [io |-> r.io, value |-> got.value])))
    ELSE NoValue(Fail(io, UnexpectedError))

\* a search that shadows the root before it descends
search_with_copy(io, key) ==
    Then(get_page(io, io.wal), LAMBDA r :
    Then(write_page(r.io, r.page), LAMBDA w :
        search_node(w.io, PageToNode(r.page), key)))

search(io, key) ==
    Then(get_page(io, io.wal), LAMBDA r : search_node(r.io, PageToNode(r.page), key))

(***************************************************************************)
(* BTree::delete                                                           *)
(***************************************************************************)
\* BTree::merge: the merged node, or the error / panic that ends the call
merge(first, second) ==
    IF first.kind = "Leaf" THEN
        IF second.kind = "Leaf"
        THEN [err |-> Panic, node |-> UnexpectedNode]
        ELSE [err |-> UnexpectedError, node |-> UnexpectedNode]
    ELSE IF first.kind = "Internal" THEN
        IF second.kind = "Internal"
        THEN [err |-> Ok,
              node |-> InternalNode(first.children \o second.children,
                                    first.keys \o second.keys,
                                    first.is_root, first.parent)]
        ELSE [err |-> UnexpectedError, node |-> UnexpectedNode]
    ELSE [err |-> UnexpectedError, node |-> UnexpectedNode]

RECURSIVE borrow_if_needed(_, _, _, _)
borrow_if_needed(io, node, key, b) ==
    IF io.err # Ok THEN io
    ELSE IF node.kind = "Unexpected" THEN Fail(io, UnexpectedError)
    ELSE IF ~is_node_underflow(node, b) THEN io
    ELSE IF node.parent = NoOffset THEN Fail(io, UnexpectedError)
    ELSE
    Then(get_page(io, node.parent), LAMBDA r :
    Then(PageToNode(r.page), LAMBDA parent_node :
    IF r.io.err # Ok THEN r.io
    ELSE IF parent_node.kind # "Internal" THEN Fail(r.io, UnexpectedError)
    ELSE
    Then(binary_search(parent_node.keys, key, io.pick).idx, LAMBDA idx :
    LET sibling_idx == IF idx > 0 THEN idx - 1 ELSE idx + 1
        merged_node_idx == Min(idx, sibling_idx)
    IN
    IF sibling_idx >= Len(parent_node.children) THEN Fail(r.io, UnexpectedError)
    ELSE
    Then(get_page(r.io, parent_node.children[sibling_idx + 1]), LAMBDA r2 :
    Then(PageToNode(r2.page), LAMBDA sibling :
    IF r2.io.err # Ok THEN r2.io
    ELSE IF sibling.kind = "Unexpected" THEN Fail(r2.io, UnexpectedError)
    ELSE
    Then(merge(node, sibling), LAMBDA m :
    IF m.err # Ok THEN Fail(r2.io, m.err)
    ELSE
    Then(write_page(r2.io, NodeToPage(m.node)), LAMBDA w :
    IF w.io.err # Ok THEN w.io
    ELSE IF merged_node_idx + 1 >= Len(parent_node.children) THEN Fail(w.io, Panic)
    ELSE
    Then(VecRemove(VecRemove(parent_node.children, merged_node_idx), merged_node_idx),
         LAMBDA children :
    IF parent_node.is_root /\ children = <<>> THEN set_root(w.io, w.off)
    ELSE IF idx >= Len(parent_node.keys) THEN Fail(w.io, Panic)
    ELSE
    Then([parent_node EXCEPT
            !.keys = VecRemove(parent_node.keys, idx),
            !.children = VecInsert(children, merged_node_idx, w.off)],
         LAMBDA parent2 :
    Then(write_page_at_offset(w.io, NodeToPage(parent2), node.parent), LAMBDA io3 :
        borrow_if_needed(io3, parent2, key, b)))))))))))

\* a leaf arm that reports success without removing the pair
delete_leaf_keeps_pair(io, key, node, node_offset, b) ==
    Then(binary_search(PairKeys(node.pairs), key, io.pick), LAMBDA bs :
        IF ~bs.found THEN Fail(io, KeyNotFound) ELSE io)

\* a leaf arm that reports success when the key is missing
delete_leaf_ignores_missing(io, key, node, node_offset, b) ==
    Then(binary_search(PairKeys(node.pairs), key, io.pick), LAMBDA bs :
    IF ~bs.found THEN io
    ELSE
    Then(get_page(io, node.data), LAMBDA r :
    Then(PageToDataPage(r.page), LAMBDA data_page :
    IF r.io.err # Ok THEN r.io
    ELSE IF bs.idx >= Len(data_page.values) THEN Fail(r.io, Panic)
    ELSE
    Then(write_page(r.io, DataPageToPage(DataPage(VecRemove(data_page.values, bs.idx)))),
         LAMBDA w :
    Then([node EXCEPT !.data = w.off, !.pairs = VecRemove(node.pairs, bs.idx)],
         LAMBDA leaf :
    Then(write_page_at_offset(w.io, NodeToPage(leaf), node_offset), LAMBDA io2 :
        borrow_if_needed(io2, leaf, key, b)))))))

\* a leaf arm that removes the pair and leaves the value on the data page
delete_leaf_keeps_value(io, key, node, node_offset, b) ==
    Then(binary_search(PairKeys(node.pairs), key, io.pick), LAMBDA bs :
    IF ~bs.found THEN Fail(io, KeyNotFound)
    ELSE
    Then(get_page(io, node.data), LAMBDA r :
    Then(PageToDataPage(r.page), LAMBDA data_page :
    IF r.io.err # Ok THEN r.io
    ELSE IF bs.idx >= Len(data_page.values) THEN Fail(r.io, Panic)
    ELSE
    Then(write_page(r.io, DataPageToPage(data_page)), LAMBDA w :
    Then([node EXCEPT !.data = w.off, !.pairs = VecRemove(node.pairs, bs.idx)],
         LAMBDA leaf :
    Then(write_page_at_offset(w.io, NodeToPage(leaf), node_offset), LAMBDA io2 :
        borrow_if_needed(io2, leaf, key, b)))))))

\* delete_key_from_subtree, NodeType::Leaf arm
delete_leaf(io, key, node, node_offset, b) ==
    Then(binary_search(PairKeys(node.pairs), key, io.pick), LAMBDA bs :
    IF ~bs.found THEN Fail(io, KeyNotFound)
    ELSE
    LET key_idx == bs.idx IN
    Then(get_page(io, node.data), LAMBDA r :
    Then(PageToDataPage(r.page), LAMBDA data_page :
    IF r.io.err # Ok THEN r.io
    ELSE IF key_idx >= Len(data_page.values) THEN Fail(r.io, Panic)
    ELSE
    Then(write_page(r.io, DataPageToPage(DataPage(VecRemove(data_page.values, key_idx)))),
         LAMBDA w :
    Then([node EXCEPT !.data = w.off, !.pairs = VecRemove(node.pairs, key_idx)],
         LAMBDA leaf :
    Then(write_page_at_offset(w.io, NodeToPage(leaf), node_offset), LAMBDA io2 :
        borrow_if_needed(io2, leaf, key, b)))))))

\* a child copy that keeps the parent offset it was read with
child_with_old_parent(child, node_offset) == child

\* child_node.parent_offset = Some(node_offset): the copied child is made a
\* child of the copied parent
relinked_child(child, node_offset) == [child EXCEPT !.parent = node_offset]

RECURSIVE delete_key_from_subtree(_, _, _, _, _)
delete_key_from_subtree(io, key, node, node_offset, b) ==
    IF io.err # Ok THEN io
    ELSE IF node.kind = "Leaf" THEN delete_leaf(io, key, node, node_offset, b)
    ELSE IF node.kind = "Internal" THEN
        Then(binary_search(node.keys, key, io.pick).idx, LAMBDA node_idx :
        IF node_idx >= Len(node.children) THEN Fail(io, UnexpectedError)
        ELSE
        Then(get_page(io, node.children[node_idx + 1]), LAMBDA r :
        Then(PageToNode(r.page), LAMBDA decoded :
        IF r.io.err # Ok THEN r.io
        ELSE IF decoded.kind = "Unexpected" THEN Fail(r.io, UnexpectedError)
        ELSE
        Then(relinked_child(decoded, node_offset), LAMBDA child_node :
        Then(write_page(r.io, NodeToPage(child_node)), LAMBDA w :
        Then(write_page_at_offset(
                w.io,
                NodeToPage([node EXCEPT !.children = VecSet(node.children, node_idx, w.off)]),
                node_offset),
             LAMBDA io2 :
            delete_key_from_subtree(io2, key, child_node, w.off, b)))))))
    ELSE Fail(io, UnexpectedError)

\* a delete that never commits the new root
delete_without_commit(io, key, b) ==
    Then(get_page(io, io.wal), LAMBDA r :
    Then(PageToNode(r.page), LAMBDA new_root :
        IF r.io.err # Ok THEN r.io
        ELSE IF new_root.kind = "Unexpected" THEN Fail(r.io, UnexpectedError)
        ELSE
        Then(write_page(r.io, NodeToPage(new_root)), LAMBDA w :
            delete_key_from_subtree(w.io, key, new_root, w.off, b))))

\* a delete that records the copied root before the subtree is rewritten
delete_commits_first(io, key, b) ==
    Then(get_page(io, io.wal), LAMBDA r :
    Then(PageToNode(r.page), LAMBDA new_root :
        IF r.io.err # Ok THEN r.io
        ELSE IF new_root.kind = "Unexpected" THEN Fail(r.io, UnexpectedError)
        ELSE
        Then(write_page(r.io, NodeToPage(new_root)), LAMBDA w :
        Then(set_root(w.io, w.off), LAMBDA io2 :
            delete_key_from_subtree(io2, key, new_root, w.off, b)))))

delete(io, key, b) ==
    Then(get_page(io, io.wal), LAMBDA r :
    Then(PageToNode(r.page), LAMBDA new_root :
        IF r.io.err # Ok THEN r.io
        ELSE IF new_root.kind = "Unexpected" THEN Fail(r.io, UnexpectedError)
        ELSE
        Then(write_page(r.io, NodeToPage(new_root)), LAMBDA w :
        Then(delete_key_from_subtree(w.io, key, new_root, w.off, b), LAMBDA io2 :
            set_root(io2, w.off)))))

(***************************************************************************)
(* BTreeBuilder::build                                                     *)
(***************************************************************************)
\* Pager::new: opens the tree file, creating and truncating it
pager_new(io) ==
    IF io.err # Ok THEN io
    ELSE Then(PagerCall(io), LAMBDA c :
             IF c.err # Ok THEN c
             ELSE [c EXCEPT !.file = <<>>, !.cursor = 0,
                            !.log = Append(@, [ev |-> "open", off |-> 0])])

\* a build that checks only the path
build_accepts_zero(pth, bb, failAt, pk) ==
    Then(NewIo(<<>>, 0, NoOffset, failAt, pk), LAMBDA io :
    IF pth = "" THEN Fail(io, UnexpectedError)
    ELSE
    Then(pager_new(io), LAMBDA io1 :
    Then(write_page(io1, DataPageToPage(DataPage(<<>>))), LAMBDA w1 :
    Then(write_page(w1.io, NodeToPage(LeafNode(w1.off, <<>>, TRUE, NoOffset))), LAMBDA w2 :
        set_root(w2.io, w2.off)))))

\* a build whose root leaf is not flagged as the root
build_unflagged_root(pth, bb, failAt, pk) ==
    Then(NewIo(<<>>, 0, NoOffset, failAt, pk), LAMBDA io :
    IF pth = "" THEN Fail(io, UnexpectedError)
    ELSE IF bb = 0 THEN Fail(io, UnexpectedError)
    ELSE
    Then(pager_new(io), LAMBDA io1 :
    Then(write_page(io1, DataPageToPage(DataPage(<<>>))), LAMBDA w1 :
    Then(write_page(w1.io, NodeToPage(LeafNode(w1.off, <<>>, FALSE, NoOffset))), LAMBDA w2 :
        set_root(w2.io, w2.off)))))

build(pth, bb, failAt, pk) ==
    Then(NewIo(<<>>, 0, NoOffset, failAt, pk), LAMBDA io :
    IF pth = "" THEN Fail(io, UnexpectedError)
    ELSE IF bb = 0 THEN Fail(io, UnexpectedError)
    ELSE
    Then(pager_new(io), LAMBDA io1 :
    Then(write_page(io1, DataPageToPage(DataPage(<<>>))), LAMBDA w1 :
    Then(write_page(w1.io, NodeToPage(LeafNode(w1.off, <<>>, TRUE, NoOffset))), LAMBDA w2 :
        set_root(w2.io, w2.off)))))

(***************************************************************************)
(* The state machine.                                                      *)
(***************************************************************************)
VARIABLES
    file,       \* Pager: the pages of the tree file, in file order
    cursor,     \* Pager::cursor
    wal,        \* Wal: the root offset on record
    b,          \* BTree::b
    pick,       \* which of several equal elements this build's binary_search returns
    crashed,    \* a panic has ended the program
    workload,   \* "any": keys in any order; "ascending": keys 1, 2, 3, ... in order
    nops,       \* calls made so far
    ndel,       \* delete calls made so far
    nfail,      \* calls made to hit an injected I/O error so far
    nerr,       \* insert/delete calls that returned an error or panicked so far
    inserted,   \* key -> the values of its successful inserts, in order
    removed,    \* key -> the number of its successful deletes
    last,       \* the last call: what it was, how it ended, what it wrote
    path,       \* BTreeBuilder::path
    built       \* build has returned a BTree

vars == <<file, cursor, wal, b, pick, crashed, workload, nops, ndel, nfail, nerr,
          inserted, removed, last, path, built>>

AllKeys == 1..Max(MaxKey, MaxAscKey)

WorkKeys == IF workload = "any" THEN Keys ELSE AscKeys

\* every insert call carries a value that no earlier call carried
FreshValue == nops + 1

\* what search(key) returns on the tree file f with WAL root w
SearchResult(f, c, w, key) ==
    Then(search(NewIo(f, c, w, 0, pick), key), LAMBDA r :
        [err |-> r.io.err, value |-> IF r.io.err = Ok THEN r.value ELSE 0])

NoCall ==
    [op |-> "build", key |-> 0, value |-> 0, err |-> Ok, injected |-> FALSE,
     root_before |-> NoOffset, cursor_before |-> 0, log |-> <<>>]

\* BTreeBuilder::build with a non-empty path and b = bb
Built(bb) ==
    /\ file = << DataPageToPage(DataPage(<<>>)),
                 NodeToPage(LeafNode(0, <<>>, TRUE, NoOffset)) >>
    /\ cursor = 2 * PAGE_SIZE
    /\ wal = PAGE_SIZE
    /\ b = bb

Fresh(w) ==
    /\ \E bb \in Bs : Built(bb)
    /\ pick \in {"first", "last"}
    /\ workload = w
    /\ crashed = FALSE
    /\ nops = 0
    /\ ndel = 0
    /\ nfail = 0
    /\ nerr = 0
    /\ inserted = [k \in AllKeys |-> <<>>]
    /\ removed = [k \in AllKeys |-> 0]
    /\ last = NoCall
    /\ path = "db"
    /\ built = TRUE

Init == Fresh("any")

InitAsc == Fresh("ascending")

\* the state a call leaves behind
Leave(io, op, key, value, injected) ==
    /\ file' = io.file
    /\ cursor' = io.cursor
    /\ wal' = io.wal
    /\ crashed' = (io.err = Panic)
    /\ last' = [op |-> op, key |-> key, value |-> value, err |-> io.err,
                injected |-> injected,
                root_before |-> wal, cursor_before |-> cursor, log |-> io.log]
    /\ nops' = nops + 1
    /\ nfail' = IF injected THEN nfail + 1 ELSE nfail
    /\ nerr' = IF op # "search" /\ io.err # Ok THEN nerr + 1 ELSE nerr
    /\ UNCHANGED <<b, pick, workload, path, built>>

MayInsert(key) ==
    /\ built /\ ~crashed
    /\ IF workload = "any"
       THEN key \in Keys /\ nops < MaxOps
       ELSE key \in AscKeys /\ \A k \in AscKeys : (inserted[k] # <<>>) <=> (k < key)

MayDelete(key) ==
    /\ built /\ ~crashed
    /\ IF workload = "any"
       THEN key \in Keys /\ nops < MaxOps
       ELSE key \in AscKeys /\ ndel < MaxAscDeletes

DoInsert(key, value, failAt) ==
    \E io \in {insert(NewIo(file, cursor, wal, failAt, pick), key, value, b)} :
        /\ (failAt > 0) => (io.err = IOError)
        /\ Leave(io, "insert", key, value, failAt > 0)
        /\ inserted' = IF io.err = Ok
                       THEN [inserted EXCEPT ![key] = Append(@, value)]
                       ELSE inserted
        /\ UNCHANGED <<removed, ndel>>

DoDelete(key, failAt) ==
    \E io \in {delete(NewIo(file, cursor, wal, failAt, pick), key, b)} :
        /\ (failAt > 0) => (io.err = IOError)
        /\ Leave(io, "delete", key, 0, failAt > 0)
        /\ removed' = IF io.err = Ok THEN [removed EXCEPT ![key] = @ + 1] ELSE removed
        /\ ndel' = ndel + 1
        /\ UNCHANGED inserted

\* insert(key, value) with no I/O error
Insert ==
    \E key \in AllKeys : MayInsert(key) /\ DoInsert(key, FreshValue, 0)

\* insert(key, value) whose failAt-th pager call fails
InsertFail ==
    \E key \in AllKeys, failAt \in 1..MaxFailAt :
        MayInsert(key) /\ nfail < MaxFailures /\ DoInsert(key, FreshValue, failAt)

\* delete(key) with no I/O error
Delete ==
    \E key \in AllKeys : MayDelete(key) /\ DoDelete(key, 0)

\* delete(key) whose failAt-th pager call fails
DeleteFail ==
    \E key \in AllKeys, failAt \in 1..MaxFailAt :
        MayDelete(key) /\ nfail < MaxFailures /\ DoDelete(key, failAt)

\* search(key)
Search ==
    \E key \in Keys :
        \E r \in {search(NewIo(file, cursor, wal, 0, pick), key)} :
            /\ built /\ ~crashed
            /\ workload = "any"
            /\ nops < MaxOps
            /\ Leave(r.io, "search", key, IF r.io.err = Ok THEN r.value ELSE 0, FALSE)
            /\ UNCHANGED <<ndel, inserted, removed>>

\* the paths handed to the builder: the empty path and a path to a file
Paths == {"", "db"}

\* BTreeBuilder::new().path(..).b_parameter(..): nothing is built yet
NewBuilder ==
    [op |-> "new", key |-> 0, value |-> 0, err |-> Ok, injected |-> FALSE,
     root_before |-> NoOffset, cursor_before |-> 0, log |-> <<>>]

InitBuilder ==
    /\ file = <<>>
    /\ cursor = 0
    /\ wal = NoOffset
    /\ b \in 0..MaxB
    /\ path \in Paths
    /\ built = FALSE
    /\ pick \in {"first", "last"}
    /\ workload = "any"
    /\ crashed = FALSE
    /\ nops = 0
    /\ ndel = 0
    /\ nfail = 0
    /\ nerr = 0
    /\ inserted = [k \in AllKeys |-> <<>>]
    /\ removed = [k \in AllKeys |-> 0]
    /\ last = NewBuilder

DoBuild(failAt) ==
    \E io \in {build(path, b, failAt, pick)} :
        /\ ~built /\ last.op = "new"
        /\ (failAt > 0) => (io.err = IOError)
        /\ file' = io.file
        /\ cursor' = io.cursor
        /\ wal' = io.wal
        /\ built' = (io.err = Ok)
        /\ last' = [op |-> "build", key |-> 0, value |-> 0, err |-> io.err,
                    injected |-> failAt > 0,
                    root_before |-> wal, cursor_before |-> cursor, log |-> io.log]
        /\ nfail' = IF failAt > 0 THEN nfail + 1 ELSE nfail
        /\ UNCHANGED <<b, pick, workload, path, crashed, nops, ndel, nerr, inserted, removed>>

\* build() with no I/O error
Build == ~built /\ DoBuild(0)

\* build() whose failAt-th pager call fails
BuildFail == \E failAt \in 1..MaxFailAt : nfail < MaxFailures /\ DoBuild(failAt)

\* keys in any order, no I/O errors
Next == Insert \/ Delete \/ Search

Spec == Init /\ [][Next]_vars

\* keys in ascending order, deep trees, I/O errors
NextAsc == Insert \/ Delete \/ InsertFail \/ DeleteFail

SpecAsc == InitAsc /\ [][NextAsc]_vars

\* the builder, then keys in any order
NextBuild == Build \/ BuildFail \/ Insert \/ Delete \/ Search

SpecBuild == InitBuilder /\ [][NextBuild]_vars

(***************************************************************************)
(* borrow_if_needed on an underflowing internal node.  No delete gets as   *)
(* far as this (the leaf merge below it does not return), so the function  *)
(* is applied to the tree files a delete would hand it: a root P at        *)
(* PAGE_SIZE whose children are internal nodes, the child U on the path of *)
(* the key one key short, every other child with b-1 keys, leaves and      *)
(* their data pages below them.                                            *)
(***************************************************************************)
\* number of keys of the parent P of the underflowing node
ParentKeyCounts == 1..(2 * MaxB - 1)

\* key t of a child; leaf t (from 0) of a child covers a span of LeafSpan keys,
\* enough for the b-1 pairs of a leaf
LeafSpan == MaxB
\* separator j of P; child j (from 1) of P covers the keys of
\* (KeySpan * (j-1), KeySpan * j], enough for the leaves of a child
KeySpan == 2 * MaxB * LeafSpan

BorrowParentKeys(n) == [j \in 1..n |-> KeySpan * j]

\* the keys a delete may have descended with: the smallest key of every
\* child's range and every separator of P
BorrowKeys(n) ==
    {KeySpan * (j - 1) + 1 : j \in 1..(n + 1)} \cup {KeySpan * j : j \in 1..n}

\* number of keys of child j of P when child u is mu keys strong
BorrowChildLen(j, u, mu, bb) == IF j = u THEN mu ELSE bb - 1

\* pages taken by the leaves (with their data pages) of the children before j
BorrowLeafPagesBefore(j, u, mu, bb) ==
    2 * bb * (j - 1) - (IF u < j THEN 2 * (bb - 1 - mu) ELSE 0)

\* offset of child j of P, and of leaf t (from 0) of child j
BorrowChildOffset(j) == PAGE_SIZE * (j + 1)
BorrowLeafOffset(n, j, t, u, mu, bb) ==
    PAGE_SIZE * (n + 3 + BorrowLeafPagesBefore(j, u, mu, bb) + 2 * t)

BorrowChild(n, j, u, mu, bb) ==
    InternalNode([t \in 1..(BorrowChildLen(j, u, mu, bb) + 1) |->
                     BorrowLeafOffset(n, j, t - 1, u, mu, bb)],
                 [t \in 1..BorrowChildLen(j, u, mu, bb) |->
                     KeySpan * (j - 1) + LeafSpan * t],
                 FALSE, PAGE_SIZE)

\* leaf t (from 0) of child j: b-1 pairs, its data page right behind it
BorrowLeaf(n, j, t, u, mu, bb) ==
    LeafNode(BorrowLeafOffset(n, j, t, u, mu, bb) + PAGE_SIZE,
             [x \in 1..(bb - 1) |-> KeyValuePair(KeySpan * (j - 1) + LeafSpan * t + x, x - 1)],
             FALSE, BorrowChildOffset(j))

BorrowLeafData(j, t, bb) ==
    DataPage([x \in 1..(bb - 1) |-> KeySpan * (j - 1) + LeafSpan * t + x])

RECURSIVE BorrowLeafPages(_, _, _, _, _, _)
BorrowLeafPages(n, j, t, u, mu, bb) ==
    IF j > n + 1 THEN <<>>
    ELSE IF t > BorrowChildLen(j, u, mu, bb) THEN BorrowLeafPages(n, j + 1, 0, u, mu, bb)
    ELSE << NodeToPage(BorrowLeaf(n, j, t, u, mu, bb)),
            DataPageToPage(BorrowLeafData(j, t, bb)) >>
         \o BorrowLeafPages(n, j, t + 1, u, mu, bb)

\* the tree file: the data page build left at 0, P, its children, their leaves
BorrowFile(n, u, mu, bb) ==
    << DataPageToPage(DataPage(<<>>)),
       NodeToPage(InternalNode([j \in 1..(n + 1) |-> BorrowChildOffset(j)],
                               BorrowParentKeys(n), TRUE, NoOffset)) >>
    \o [j \in 1..(n + 1) |-> NodeToPage(BorrowChild(n, j, u, mu, bb))]
    \o BorrowLeafPages(n, 1, 0, u, mu, bb)

\* the descent of a delete has reached the node at last.value with last.key
Descended(key, off) ==
    [op |-> "descend", key |-> key, value |-> off, err |-> Ok, injected |-> FALSE,
     root_before |-> PAGE_SIZE, cursor_before |-> 0, log |-> <<>>]

InitBorrow ==
    /\ b \in {bb \in Bs : bb >= 2}
    /\ pick \in {"first", "last"}
    /\ \E n \in ParentKeyCounts, mu \in 0..(MaxB - 2) :
       \E key \in BorrowKeys(n) :
       \E u \in {binary_search(BorrowParentKeys(n), key, pick).idx + 1} :
           /\ n <= 2 * b - 1
           /\ mu <= b - 2
           /\ file = BorrowFile(n, u, mu, b)
           /\ last = Descended(key, BorrowChildOffset(u))
    /\ cursor = Len(file) * PAGE_SIZE
    /\ wal = PAGE_SIZE
    /\ workload = "borrow"
    /\ crashed = FALSE
    /\ nops = 0
    /\ ndel = 0
    /\ nfail = 0
    /\ nerr = 0
    /\ inserted = [k \in AllKeys |-> <<>>]
    /\ removed = [k \in AllKeys |-> 0]
    /\ path = "db"
    /\ built = TRUE

DoBorrow(failAt) ==
    \E io \in {borrow_if_needed(NewIo(file, cursor, wal, failAt, pick),
                                PageToNode(file[PageIndex(last.value)]), last.key, b)} :
        /\ workload = "borrow" /\ last.op = "descend" /\ ~crashed
        /\ (failAt > 0) => (io.err = IOError)
        /\ Leave(io, "borrow", last.key, last.value, failAt > 0)
        /\ UNCHANGED <<ndel, inserted, removed>>

\* borrow_if_needed(node, key) with no I/O error
Borrow == workload = "borrow" /\ DoBorrow(0)

\* borrow_if_needed(node, key) whose failAt-th pager call fails
BorrowFail == \E failAt \in 1..MaxFailAt : nfail < MaxFailures /\ DoBorrow(failAt)

NextBorrow == Borrow \/ BorrowFail

SpecBorrow == InitBorrow /\ [][NextBorrow]_vars

(***************************************************************************)
(* DataPage as a page of bytes (data_page.rs): insert_bytes_at_offset      *)
(* applied to one page, with offsets near the end of the page.             *)
(***************************************************************************)
\* how far below PAGE_SIZE the offsets of a call may lie
MaxSpan == 3
\* the largest size, and the longest slice, of a call
MaxSize == 2

\* data: Box<[u8; PAGE_SIZE]>, positions 0..PAGE_SIZE-1, every byte told
\* apart from its neighbours
BytePage == [i \in 0..(PAGE_SIZE - 1) |-> i % 256]

\* the slice handed to the call: n bytes 0xFF
ByteSlice(n) == [j \in 1..n |-> 255]

ByteOffsets == (PAGE_SIZE - MaxSpan)..PAGE_SIZE

\* for idx in (offset..=idx).rev() { data[idx + size] = data[idx] }
RECURSIVE shift_bytes(_, _, _, _)
shift_bytes(data, idx, offset, size) ==
    IF idx < offset THEN data
    ELSE shift_bytes([data EXCEPT ![idx + size] = data[idx]], idx - 1, offset, size)

\* the highest position the loop and the slice of a call address
HighestIndex(offset, end_offset, size) ==
    Max(IF offset <= end_offset THEN end_offset + size ELSE -1, offset + size - 1)

\* self.data[offset..offset + size].clone_from_slice(bytes), after the loop
clone_from_slice(shifted, bytes, offset, end_offset, size) ==
    IF offset + size > PAGE_SIZE
    THEN [err |-> Panic, data |-> shifted, index |-> offset + size - 1]
    ELSE IF Len(bytes) # size
    THEN [err |-> Panic, data |-> shifted,
          index |-> HighestIndex(offset, end_offset, size)]
    ELSE [err |-> Ok,
          data |-> [i \in DOMAIN shifted |->
                       IF offset <= i /\ i < offset + size
                       THEN bytes[i - offset + 1] ELSE shifted[i]],
          index |-> HighestIndex(offset, end_offset, size)]

\* DataPage::insert_bytes_at_offset: the result, the page afterwards and the
\* highest position the call addressed (-1: none).  An index outside the
\* array panics before anything is written at it.
insert_bytes_at_offset(data, bytes, offset, end_offset, size) ==
    IF end_offset + size > PAGE_SIZE
    THEN [err |-> UnexpectedError, data |-> data, index |-> -1]
    ELSE IF offset <= end_offset /\ end_offset + size >= PAGE_SIZE
    THEN [err |-> Panic, data |-> data, index |-> end_offset + size]
    ELSE clone_from_slice(shift_bytes(data, end_offset, offset, size),
                          bytes, offset, end_offset, size)

InitBytes ==
    /\ b \in Bs
    /\ pick = "first"
    /\ file = <<>>
    /\ cursor = 0
    /\ wal = NoOffset
    /\ workload = "bytes"
    /\ crashed = FALSE
    /\ nops = 0
    /\ ndel = 0
    /\ nfail = 0
    /\ nerr = 0
    /\ inserted = [k \in AllKeys |-> <<>>]
    /\ removed = [k \in AllKeys |-> 0]
    /\ path = "db"
    /\ built = FALSE
    /\ last = [op |-> "new", err |-> Ok, data |-> BytePage, index |-> -1,
               bytes |-> <<>>, offset |-> 0, end_offset |-> 0, size |-> 0]

DoInsertBytes(bytes, offset, end_offset, size) ==
    \E r \in {insert_bytes_at_offset(last.data, bytes, offset, end_offset, size)} :
        /\ last.op = "new" /\ ~crashed
        /\ last' = [op |-> "insert_bytes_at_offset", err |-> r.err, data |-> r.data,
                    index |-> r.index, bytes |-> bytes, offset |-> offset,
                    end_offset |-> end_offset, size |-> size]
        /\ crashed' = (r.err = Panic)
        /\ nops' = nops + 1
        /\ nerr' = IF r.err # Ok THEN nerr + 1 ELSE nerr
        /\ UNCHANGED <<file, cursor, wal, b, pick, workload, ndel, nfail,
                       inserted, removed, path, built>>

\* page.insert_bytes_at_offset(bytes, offset, end_offset, size) on a new page
InsertBytes ==
    /\ workload = "bytes"
    /\ \E offset \in ByteOffsets, end_offset \in ByteOffsets :
       \E size \in 0..MaxSize, n \in 0..MaxSize :
           DoInsertBytes(ByteSlice(n), offset, end_offset, size)

NextBytes == InsertBytes

SpecBytes == InitBytes /\ [][NextBytes]_vars

(***************************************************************************)
(* What the properties talk about.                                         *)
(***************************************************************************)
PageAt(off) == file[PageIndex(off)]

\* the node pages reachable from the page at off, each with its depth below it
RECURSIVE ReachFrom(_, _, _)
ReachFrom(f, off, depth) ==
    IF off < 0 \/ off % PAGE_SIZE # 0 \/ PageIndex(off) > Len(f) THEN {}
    ELSE LET p == f[PageIndex(off)]
         IN  {[off |-> off, depth |-> depth]} \cup
             (IF p.kind = "Internal" /\ depth < Len(f)
              THEN UNION {ReachFrom(f, p.children[i], depth + 1) : i \in 1..Len(p.children)}
              ELSE {})

\* the nodes reachable from the live root
LiveNodes == ReachFrom(file, wal, 0)

\* the keys held by the leaves reachable from the live root
LiveKeys ==
    UNION {{PageAt(n.off).pairs[i].key : i \in 1..Len(PageAt(n.off).pairs)} : n \in LiveNodes}

\* every insert and delete call so far returned Ok, and none was a delete
OnlyInserts == ndel = 0 /\ nerr = 0

\* every insert and delete call so far returned Ok
AllCallsOk == nerr = 0

\* no key was inserted twice
DistinctKeys == \A k \in AllKeys : Len(inserted[k]) <= 1

Found(k, v) == SearchResult(file, cursor, wal, k) = [err |-> Ok, value |-> v]

NotFound(k) == SearchResult(file, cursor, wal, k).err = KeyNotFound

\* the search results of every key, in the current state
Visible == [k \in AllKeys |-> SearchResult(file, cursor, wal, k)]

\* the number of set_root records in a log
RootWrites(log) == Cardinality({i \in 1..Len(log) : log[i].ev = "set_root"})

(***************************************************************************)
(* C1  Round-trip: for b >= 2, after successful inserts of pairwise        *)
(* distinct keys in any order, search(k) returns the value k was inserted  *)
(* with, for every inserted key.                                           *)
(***************************************************************************)
C1_RoundTrip ==
    (b >= 2 /\ OnlyInserts /\ DistinctKeys) =>
        \A k \in AllKeys : inserted[k] # <<>> => Found(k, inserted[k][1])

(***************************************************************************)
(* C2  Delete preserves the rest of the map: a successful delete(k) leaves *)
(* every other key that was inserted once, was not deleted and returned    *)
(* its original value before the call still returning that value.          *)
(***************************************************************************)
C2_DeleteKeepsOthers ==
    [][ (last'.op = "delete" /\ last'.err = Ok) =>
            \A k \in AllKeys \ {last'.key} :
                (Len(inserted[k]) = 1 /\ removed[k] = 0 /\ Found(k, inserted[k][1]))
                    => SearchResult(file', cursor', wal', k) = [err |-> Ok, value |-> inserted[k][1]]
      ]_vars

(***************************************************************************)
(* C3  After a successful delete(k) of a key that was inserted exactly     *)
(* once, search(k) fails with KeyNotFound.                                 *)
(***************************************************************************)
C3_DeletedKeyNotFound ==
    (last.op = "delete" /\ last.err = Ok /\ Len(inserted[last.key]) = 1)
        => NotFound(last.key)

C3_Witness ==
    /\ last.op = "delete" /\ last.err = Ok /\ Len(inserted[last.key]) = 1
    /\ b >= 2
    /\ PageAt(wal).kind = "Internal"

(***************************************************************************)
(* C4  Key membership: after successful inserts of distinct keys,          *)
(* search(k) fails with KeyNotFound if and only if k was never inserted.   *)
(***************************************************************************)
C4_KeyMembership ==
    (OnlyInserts /\ DistinctKeys) =>
        \A k \in WorkKeys : NotFound(k) <=> (inserted[k] = <<>>)

\* the same, for the b the interface documents (b >= 2)
C4_KeyMembershipB2 == (b >= 2) => C4_KeyMembership

\* the search results of every key, after the step
VisibleNext == [k \in AllKeys |-> SearchResult(file', cursor', wal', k)]

(***************************************************************************)
(* C5  Atomic commit count: every successful insert or delete writes the   *)
(* WAL root exactly once, and the root on record after the call differs    *)
(* from the root on record before it.                                      *)
(***************************************************************************)
C5_OneRootWrite ==
    (last.op \in {"insert", "delete"} /\ last.err = Ok) =>
        (RootWrites(last.log) = 1 /\ wal # last.root_before)

C5_Witness ==
    /\ last.op = "delete" /\ last.err = Ok
    /\ b >= 2
    /\ PageAt(wal).kind = "Internal"
    /\ RootWrites(last.log) = 1

(***************************************************************************)
(* C6  Failed write leaves the visible tree unchanged: an insert or delete *)
(* that fails with an I/O error at any pager call leaves the WAL root and  *)
(* the result of every search from the live root as they were.             *)
(***************************************************************************)
C6_FailedWriteInvisible ==
    [][ (last'.op \in {"insert", "delete"} /\ last'.err = IOError) =>
            (wal' = wal /\ VisibleNext = Visible)
      ]_vars

(***************************************************************************)
(* C7  delete(k) of a key that no live leaf holds fails with KeyNotFound,  *)
(* leaves the WAL root unchanged and leaves every search result from the   *)
(* live root unchanged.                                                    *)
(***************************************************************************)
C7_DeleteAbsent ==
    [][ (last'.op = "delete" /\ ~last'.injected /\ last'.key \notin LiveKeys) =>
            (last'.err = KeyNotFound /\ wal' = wal /\ VisibleNext = Visible)
      ]_vars

C7_Witness ==
    /\ last.op = "delete" /\ last.err = KeyNotFound
    /\ b >= 2
    /\ PageAt(wal).kind = "Internal"
    /\ cursor > last.cursor_before
    /\ wal = last.root_before

(***************************************************************************)
(* C8  search is read-only: a search call, whether it succeeds or fails,   *)
(* leaves the WAL root, the pager cursor and every page as they were.      *)
(***************************************************************************)
C8_SearchReadOnly ==
    [][ (last'.op = "search") => (wal' = wal /\ cursor' = cursor /\ file' = file) ]_vars

C8_Witness ==
    /\ last.op = "search"
    /\ PageAt(wal).kind = "Internal"
    /\ last.err \in {Ok, KeyNotFound}

(***************************************************************************)
(* C9  Key-count bounds: for b >= 2, after successful insert and delete    *)
(* calls, every non-root node reachable from the live root holds at least  *)
(* b-1 and at most 2b-1 keys (pairs for a leaf), and the root holds at     *)
(* most 2b-1.                                                              *)
(***************************************************************************)
C9_KeyCountBounds ==
    (b >= 2 /\ AllCallsOk) =>
        \A n \in LiveNodes :
            LET len == NodeLen(PageToNode(PageAt(n.off)))
            IN  /\ len <= 2 * b - 1
                /\ (n.off # wal) => (len >= b - 1)

C9_Witness ==
    /\ b >= 2 /\ AllCallsOk
    /\ \E n \in LiveNodes : n.depth = 2
    /\ \E n \in LiveNodes : n.off # wal /\ NodeLen(PageToNode(PageAt(n.off))) = b - 1
    /\ \E k \in AllKeys : removed[k] > 0

(***************************************************************************)
(* C10  After successful insert and delete calls, every internal node      *)
(* reachable from the live root with k keys has exactly k+1 children.      *)
(***************************************************************************)
C10_ChildrenCount ==
    AllCallsOk =>
        \A n \in LiveNodes :
            (PageAt(n.off).kind = "Internal") =>
                (Len(PageAt(n.off).children) = Len(PageAt(n.off).keys) + 1)

C10_Witness ==
    /\ AllCallsOk
    /\ b >= 2
    /\ \E n \in LiveNodes : n.depth = 2
    /\ \E n \in LiveNodes : n.off # wal /\ PageAt(n.off).kind = "Internal"
                            /\ Len(PageAt(n.off).keys) >= 1

\* the leaves among the nodes reachable from the page at off
LeavesFrom(f, off) == {n \in ReachFrom(f, off, 0) : f[PageIndex(n.off)].kind = "Leaf"}

\* the depth of the deepest node below the page at off
HeightFrom(f, off) ==
    CHOOSE h \in 0..Len(f) :
        /\ \E n \in ReachFrom(f, off, 0) : n.depth = h
        /\ \A n \in ReachFrom(f, off, 0) : n.depth <= h

\* the root that is live before the step is full
RootFull == is_node_full(PageToNode(PageAt(wal)), b)

(***************************************************************************)
(* C11  After successful insert and delete calls all leaves reachable from *)
(* the live root are at the same depth, and a successful call makes the    *)
(* tree one level higher exactly when it is an insert that finds the root  *)
(* full; every other successful call leaves the height as it was.          *)
(***************************************************************************)
C11_UniformDepth ==
    /\ [](AllCallsOk => \A m, n \in LeavesFrom(file, wal) : m.depth = n.depth)
    /\ [][ (AllCallsOk' /\ last'.op \in {"insert", "delete"}) =>
              HeightFrom(file', wal') =
                  HeightFrom(file, wal) + (IF last'.op = "insert" /\ RootFull THEN 1 ELSE 0)
         ]_vars

C11_Witness ==
    /\ AllCallsOk /\ b >= 2
    /\ last.op = "insert"
    /\ HeightFrom(file, wal) = 2
    /\ HeightFrom(file, last.root_before) = 1
    /\ Cardinality(LeavesFrom(file, wal)) >= 4

\* the keys of the leaves below the page at off, visited left to right
RECURSIVE InOrderKeys(_, _, _)
RECURSIVE InOrderChildren(_, _, _, _)
InOrderKeys(f, off, fuel) ==
    IF fuel = 0 \/ off < 0 \/ off % PAGE_SIZE # 0 \/ PageIndex(off) > Len(f) THEN <<>>
    ELSE IF f[PageIndex(off)].kind = "Leaf" THEN PairKeys(f[PageIndex(off)].pairs)
    ELSE IF f[PageIndex(off)].kind = "Internal"
    THEN InOrderChildren(f, f[PageIndex(off)].children, 1, fuel - 1)
    ELSE <<>>

InOrderChildren(f, children, i, fuel) ==
    IF i > Len(children) THEN <<>>
    ELSE InOrderKeys(f, children[i], fuel) \o InOrderChildren(f, children, i + 1, fuel)

\* the keys of the live tree, leaf by leaf from the left
LiveKeySeq == InOrderKeys(file, wal, Len(file))

(***************************************************************************)
(* C12  Ordering: after successful inserts of distinct keys and deletes,   *)
(* visiting the leaves reachable from the live root left to right yields   *)
(* keys in strictly increasing order.                                      *)
(***************************************************************************)
C12_Ordering ==
    (AllCallsOk /\ DistinctKeys) =>
        \A i, j \in 1..Len(LiveKeySeq) : (i < j) => KeyLt(LiveKeySeq[i], LiveKeySeq[j])

C12_Witness ==
    /\ AllCallsOk /\ DistinctKeys /\ b >= 2
    /\ PageAt(wal).kind = "Internal"
    /\ Len(LiveKeySeq) >= 3
    /\ \E k \in Keys : removed[k] > 0
    /\ \E k1, k2 \in Keys : /\ k1 < k2
                            /\ inserted[k1] # <<>> /\ inserted[k2] # <<>>
                            /\ inserted[k1][1] > inserted[k2][1]

\* the live leaves that hold key
LeavesHolding(key) ==
    {n \in LiveNodes : /\ PageAt(n.off).kind = "Leaf"
                       /\ \E i \in 1..Len(PageAt(n.off).pairs) : PageAt(n.off).pairs[i].key = key}

\* removing key leaves a non-root leaf with fewer than b-1 pairs
DeleteUnderflows(key) ==
    \E n \in LeavesHolding(key) : n.off # wal /\ Len(PageAt(n.off).pairs) - 1 < b - 1

(***************************************************************************)
(* C13  Underflow repair completes: a delete that leaves a non-root leaf   *)
(* with fewer than b-1 pairs returns Ok after merging the leaf with a      *)
(* sibling, and every remaining key is still found by search.              *)
(***************************************************************************)
C13_UnderflowRepair ==
    [][ (last'.op = "delete" /\ ~last'.injected /\ AllCallsOk /\ DeleteUnderflows(last'.key)) =>
            /\ last'.err = Ok
            /\ \A k \in LiveKeys \ {last'.key} :
                   SearchResult(file', cursor', wal', k).err # KeyNotFound
      ]_vars

\* the live root has exactly two children, both leaves
RootOverTwoLeaves ==
    /\ PageAt(wal).kind = "Internal"
    /\ Len(PageAt(wal).children) = 2
    /\ \A i \in 1..2 : PageAt(PageAt(wal).children[i]).kind = "Leaf"

(***************************************************************************)
(* C14  Root collapse: when a delete has to merge the only two children of *)
(* the root, the delete returns Ok, the WAL root is then the offset of the *)
(* merged node (a node written by this delete that holds the remaining     *)
(* keys) and the tree is one level lower.                                  *)
(***************************************************************************)
C14_RootCollapse ==
    [][ (last'.op = "delete" /\ ~last'.injected /\ AllCallsOk /\ b >= 2
            /\ RootOverTwoLeaves /\ DeleteUnderflows(last'.key)) =>
            /\ last'.err = Ok
            /\ wal' >= cursor
            /\ HeightFrom(file', wal') = HeightFrom(file, wal) - 1
            /\ InOrderKeys(file', wal', Len(file')) =
                   SelectSeq(LiveKeySeq, LAMBDA k : k # last'.key)
      ]_vars

(***************************************************************************)
(* C15  build() returns UnexpectedError when the path is empty or b = 0,   *)
(* without opening or writing any file, and succeeds for every other b     *)
(* (b = 1 included) when I/O succeeds.                                     *)
(***************************************************************************)
C15_BuildErrors ==
    (last.op = "build") =>
        /\ (path = "" \/ b = 0) =>
               (last.err = UnexpectedError /\ ~built /\ last.log = <<>> /\ file = <<>>)
        /\ (path # "" /\ b >= 1 /\ ~last.injected) => (last.err = Ok /\ built)

C15_Witness ==
    /\ last.op = "build" /\ last.err = UnexpectedError
    /\ path # "" /\ b = 0

(***************************************************************************)
(* C16  Initial state: after a successful build() the file holds exactly   *)
(* two pages, an empty data page at offset 0 and an empty Leaf root with   *)
(* is_root = true that references it; the WAL root is the offset of that   *)
(* leaf, and search of any key fails with KeyNotFound.                     *)
(***************************************************************************)
C16_InitialState ==
    (last.op = "build" /\ last.err = Ok) =>
        /\ Len(file) = 2
        /\ cursor = 2 * PAGE_SIZE
        /\ PageToDataPage(file[1]) = DataPage(<<>>) /\ file[1].kind = "Data"
        /\ file[2].kind = "Leaf" /\ file[2].pairs = <<>> /\ file[2].is_root
        /\ file[2].data = 0
        /\ wal = PAGE_SIZE
        /\ \A k \in AllKeys : NotFound(k)
        /\ Built(b)

C16_Witness ==
    /\ last.op = "build" /\ last.err = Ok /\ built /\ b >= 2
    /\ RootWrites(last.log) = 1

\* the values of the data page that the leaf page at off references
LeafValues(off) ==
    IF PageAt(off).data < 0 \/ PageIndex(PageAt(off).data) > Len(file) THEN <<>>
    ELSE PageToDataPage(PageAt(PageAt(off).data)).values

(***************************************************************************)
(* C17  Value-index invariant: after successful insert and delete calls,   *)
(* every pair (key, idx) of every leaf reachable from the live root has    *)
(* 0 <= idx < number of values in the data page the leaf references.       *)
(***************************************************************************)
C17_ValueIndex ==
    AllCallsOk =>
        \A n \in LiveNodes :
            (PageAt(n.off).kind = "Leaf") =>
                \A i \in 1..Len(PageAt(n.off).pairs) :
                    /\ 0 <= PageAt(n.off).pairs[i].idx
                    /\ PageAt(n.off).pairs[i].idx < Len(LeafValues(n.off))

\* the idx values of the leaf page at off are a permutation of the positions
\* of its data page
IdxPermutation(off) ==
    /\ Len(LeafValues(off)) = Len(PageAt(off).pairs)
    /\ {PageAt(off).pairs[i].idx : i \in 1..Len(PageAt(off).pairs)}
           = 0..(Len(PageAt(off).pairs) - 1)

\* the value that position i of pairs addresses in the data page at data
ValueOf(f, data, pairs, i) ==
    IF data < 0 \/ PageIndex(data) > Len(f) THEN [some |-> FALSE, value |-> 0]
    ELSE DataPageGet(PageToDataPage(f[PageIndex(data)]), pairs[i].idx)

\* split(b) of the leaf page at off keeps what every pair addresses
SplitKeepsValues(off) ==
    Then(PageToNode(PageAt(off)), LAMBDA leaf :
    Then(split(NewIo(file, cursor, wal, 0, pick), leaf, b), LAMBDA s :
        /\ s.io.err = Ok
        /\ \A i \in 1..Len(s.node.pairs) :
               ValueOf(s.io.file, s.node.data, s.node.pairs, i)
                   = ValueOf(file, leaf.data, leaf.pairs, i)
        /\ \A i \in 1..Len(s.sibling.pairs) :
               ValueOf(s.io.file, s.sibling.data, s.sibling.pairs, i)
                   = ValueOf(file, leaf.data, leaf.pairs, Len(s.node.pairs) + i)))

(***************************************************************************)
(* C18  Leaf split keeps key-to-value association: for a leaf of 2b-1      *)
(* pairs whose idx values are any permutation of the positions of its data *)
(* page, after split(b) every pair kept in the node and every pair of the  *)
(* sibling addresses, in its half's data page, the value it addressed      *)
(* before the split.                                                       *)
(***************************************************************************)
C18_SplitKeepsValues ==
    \A n \in LiveNodes :
        (/\ PageAt(n.off).kind = "Leaf"
         /\ Len(PageAt(n.off).pairs) = 2 * b - 1
         /\ IdxPermutation(n.off)) => SplitKeepsValues(n.off)

\* off is the data page of a full leaf of the live tree: a leaf that an insert splits
SplitLeafData(off) ==
    \E n \in LiveNodes :
        /\ PageAt(n.off).kind = "Leaf"
        /\ PageAt(n.off).data = off
        /\ is_node_full(PageToNode(PageAt(n.off)), b)

(***************************************************************************)
(* C19  Copy-on-write frame: during an insert or delete, every in-place    *)
(* overwrite targets a page appended earlier in the same operation or the  *)
(* data page of a leaf being split, and no node page reachable from the    *)
(* root that was live when the operation started is modified.              *)
(***************************************************************************)
C19_CowFrame ==
    [][ (last'.op \in {"insert", "delete"}) =>
            /\ \A i \in 1..Len(last'.log) :
                   (last'.log[i].ev = "overwrite") =>
                       \/ /\ last'.log[i].off >= cursor
                          /\ \E j \in 1..(i - 1) : /\ last'.log[j].ev = "append"
                                                   /\ last'.log[j].off = last'.log[i].off
                       \/ (last'.op = "insert" /\ SplitLeafData(last'.log[i].off))
            /\ \A n \in LiveNodes : file'[PageIndex(n.off)] = file[PageIndex(n.off)]
      ]_vars

C19_Witness ==
    /\ last.op = "insert" /\ last.err = Ok /\ b >= 2
    /\ HeightFrom(file, last.root_before) >= 1
    /\ \E i \in 1..Len(last.log) :
           last.log[i].ev = "overwrite" /\ last.log[i].off < last.cursor_before
    /\ \E i \in 1..Len(last.log) :
           last.log[i].ev = "overwrite" /\ last.log[i].off >= last.cursor_before

\* the positions of the pager writes (appends and in-place overwrites) of a call
PagerWrites(log) == {i \in 1..Len(log) : log[i].ev \in {"append", "overwrite"}}

\* the positions of the WAL root writes of a call
RootWriteAt(log) == {i \in 1..Len(log) : log[i].ev = "set_root"}

(***************************************************************************)
(* C20  Commit ordering: within every successful insert or delete, the WAL *)
(* set_root that commits the operation happens after every page append and *)
(* page overwrite of that operation; no pager write follows it.            *)
(***************************************************************************)
C20_CommitLast ==
    (last.op \in {"insert", "delete"} /\ last.err = Ok) =>
        /\ RootWriteAt(last.log) # {}
        /\ PagerWrites(last.log) # {}
        /\ \A i \in RootWriteAt(last.log) : \A j \in PagerWrites(last.log) : j < i

C20_Witness ==
    /\ last.op \in {"insert", "delete"} /\ last.err = Ok
    /\ b >= 2
    /\ HeightFrom(file, wal) >= 1
    /\ Cardinality(PagerWrites(last.log)) >= 4
    /\ \E j \in PagerWrites(last.log) : last.log[j].ev = "overwrite"
    /\ last.log[Len(last.log)].ev = "set_root"

\* the keys held by the leaves below the page at off
KeysUnder(f, off) ==
    {InOrderKeys(f, off, Len(f))[i] : i \in 1..Len(InOrderKeys(f, off, Len(f)))}

\* the subtree under child i of the internal node lies above keys[i-1] and
\* at or below keys[i] (children and keys counted from 0, as in the code)
KeyRange(node) ==
    \A i \in 0..(Len(node.children) - 1) :
        \A k \in KeysUnder(file, node.children[i + 1]) :
            /\ (i > 0 /\ i - 1 < Len(node.keys)) => KeyLt(node.keys[i], k)
            /\ (i < Len(node.keys)) => KeyLeq(k, node.keys[i + 1])

(***************************************************************************)
(* C21  Key-range invariant: after any sequence of successful inserts of   *)
(* distinct keys, in every internal node reachable from the live root      *)
(* every key stored under children[i] is greater than keys[i-1] (i > 0)    *)
(* and less than or equal to keys[i] (i < number of keys).                 *)
(***************************************************************************)
C21_KeyRange ==
    (OnlyInserts /\ DistinctKeys) =>
        \A n \in LiveNodes :
            (PageAt(n.off).kind = "Internal") => KeyRange(PageToNode(PageAt(n.off)))

C21_Witness ==
    /\ OnlyInserts /\ DistinctKeys /\ b >= 2
    /\ last.op = "insert"
    /\ PageAt(wal).kind = "Internal"
    /\ Len(PageAt(wal).children) >= 2
    /\ \A i \in 1..Len(PageAt(wal).children) : KeysUnder(file, PageAt(wal).children[i]) # {}
    /\ \E i \in 1..Len(PageAt(wal).children) :
           Cardinality(KeysUnder(file, PageAt(wal).children[i])) >= 2

\* the offsets of the pages appended by the call of the step
AppendedNext == {last'.log[i].off : i \in {j \in 1..Len(last'.log) : last'.log[j].ev = "append"}}

\* the root that is live after the step
NewRoot == PageToNode(file'[PageIndex(wal')])

\* the median Node::split returns for the root that is live before the step
RootMedian ==
    IF PageAt(wal).kind = "Leaf" THEN PageAt(wal).pairs[b].key
    ELSE PageToNode(PageAt(wal)).keys[b]

\* the page at off, after the step, is the old root as insert re-appends it:
\* the left half of the split, no longer the root, its parent the new root
ReappendedOldRoot(off) ==
    /\ off \in AppendedNext
    /\ file'[PageIndex(off)].kind = PageAt(wal).kind
    /\ file'[PageIndex(off)].is_root = FALSE
    /\ file'[PageIndex(off)].parent = wal'
    /\ NodeLen(PageToNode(file'[PageIndex(off)])) =
           (IF PageAt(wal).kind = "Leaf" THEN b ELSE b - 1)

\* the root split of the step leaves the shape the claim describes
RootSplitShape ==
    /\ NewRoot.kind = "Internal"
    /\ NewRoot.is_root
    /\ NewRoot.keys = <<RootMedian>>
    /\ Len(NewRoot.children) = 2
    /\ \A i \in 1..Len(NewRoot.children) :
           /\ NewRoot.children[i] \in AppendedNext
           /\ file'[PageIndex(NewRoot.children[i])].is_root = FALSE
           /\ file'[PageIndex(NewRoot.children[i])].parent = wal'
    /\ \E off \in AppendedNext : ReappendedOldRoot(off)

(***************************************************************************)
(* C22  Root split shape: when insert finds the live root full, the new    *)
(* live root is an Internal node with is_root = true, exactly one key (the *)
(* median returned by split) and exactly two children (the re-appended old *)
(* root and its sibling); the re-appended old root has is_root = false and *)
(* parent_offset equal to the new root's offset.                           *)
(***************************************************************************)
C22_RootSplitShape ==
    [][ (last'.op = "insert" /\ last'.err = Ok /\ RootFull) => RootSplitShape ]_vars

\* the same, for the trees built with b >= 2
C22_RootSplitShapeB2 ==
    [][ (b >= 2 /\ last'.op = "insert" /\ last'.err = Ok /\ RootFull) => RootSplitShape ]_vars

\* the internal nodes on file (live or of an earlier version) that are full
FullInternalNodes ==
    {PageToNode(file[i]) : i \in {j \in 1..Len(file) :
        file[j].kind = "Internal" /\ is_node_full(PageToNode(file[j]), b)}}

\* split(b) on the full internal node cuts it as the claim describes
InternalSplitOk(node) ==
    \E s \in {split(NewIo(file, cursor, wal, 0, pick), node, b)} :
        /\ s.io = NewIo(file, cursor, wal, 0, pick)
        /\ s.median = node.keys[b]
        /\ s.node.kind = "Internal"
        /\ s.node.keys = SubSeq(node.keys, 1, b - 1)
        /\ s.node.children = SubSeq(node.children, 1, b)
        /\ s.node.is_root = node.is_root /\ s.node.parent = node.parent
        /\ s.sibling.kind = "Internal"
        /\ s.sibling.is_root = FALSE
        /\ s.sibling.parent = node.parent
        /\ s.sibling.keys = SubSeq(node.keys, b + 1, 2 * b - 1)
        /\ s.sibling.children = SubSeq(node.children, b + 1, 2 * b)
        /\ s.node.keys \o <<s.median>> \o s.sibling.keys = node.keys
        /\ s.node.children \o s.sibling.children = node.children

(***************************************************************************)
(* C23  Internal split: for an internal node with 2b-1 keys k_0..k_{2b-2}  *)
(* and 2b children, split(b) returns the median k_{b-1}, leaves the node   *)
(* with keys k_0..k_{b-2} and children c_0..c_{b-1}, and returns a         *)
(* non-root sibling with keys k_b..k_{2b-2}, children c_b..c_{2b-1} and    *)
(* the node's parent_offset; no key or child is lost or duplicated.        *)
(***************************************************************************)
C23_InternalSplit ==
    \A node \in FullInternalNodes :
        (Len(node.children) = 2 * b) => InternalSplitOk(node)

C23_Witness ==
    /\ last.op = "insert" /\ last.err = Ok /\ b >= 2
    /\ PageAt(last.root_before) \in {NodeToPage(n) : n \in FullInternalNodes}
    /\ PageAt(wal).kind = "Internal" /\ Len(PageAt(wal).children) = 2

\* the leaves on file (live or of an earlier version) that are full
FullLeafNodes ==
    {PageToNode(file[i]) : i \in {j \in 1..Len(file) :
        file[j].kind = "Leaf" /\ is_node_full(PageToNode(file[j]), b)}}

\* split(b) on the full leaf cuts it as the claim describes
LeafSplitOk(node) ==
    \E s \in {split(NewIo(file, cursor, wal, 0, pick), node, b)} :
        /\ s.io.err = Ok
        /\ s.node.kind = "Leaf"
        /\ s.node.pairs = SubSeq(node.pairs, 1, b)
        /\ s.node.data = node.data
        /\ s.median = node.pairs[b].key
        /\ s.sibling.kind = "Leaf"
        /\ s.sibling.is_root = FALSE
        /\ PairKeys(s.sibling.pairs) = PairKeys(SubSeq(node.pairs, b + 1, 2 * b - 1))
        /\ s.sibling.data = cursor
        /\ s.io.cursor = cursor + PAGE_SIZE
        /\ [ev |-> "append", off |-> cursor] \in {s.io.log[i] : i \in 1..Len(s.io.log)}
        /\ s.io.file[PageIndex(s.sibling.data)].kind = "Data"
        /\ \E shift \in 0..Len(file) :
               \A i \in 1..Len(s.sibling.pairs) :
                   s.sibling.pairs[i].idx = node.pairs[b + i].idx - shift
        /\ (s.sibling.pairs # <<>>) =>
               /\ \E i \in 1..Len(s.sibling.pairs) : s.sibling.pairs[i].idx = 0
               /\ \A i \in 1..Len(s.sibling.pairs) : s.sibling.pairs[i].idx >= 0

(***************************************************************************)
(* C24  Leaf split partition: for a leaf with 2b-1 pairs, split(b) leaves  *)
(* the first b pairs in the node with their idx and the node's data page   *)
(* offset unchanged, returns the key of pair b-1 as the median (it stays   *)
(* in the left half), and returns a non-root Leaf sibling holding the      *)
(* remaining b-1 pairs in the same order, with a freshly appended data     *)
(* page and idx values shifted so that the smallest is 0.                  *)
(***************************************************************************)
C24_LeafSplit ==
    \A node \in FullLeafNodes : LeafSplitOk(node)

C24_Witness ==
    /\ last.op = "insert" /\ last.err = Ok /\ b >= 2
    /\ PageAt(last.root_before) \in {NodeToPage(n) : n \in FullLeafNodes}
    /\ PageAt(wal).kind = "Internal" /\ Len(PageAt(wal).children) = 2
    /\ \E n \in FullLeafNodes : \E i \in 1..(b - 1) : n.pairs[b + i].idx < b

\* the values of the data pages of the leaves below the page at off, left to right
RECURSIVE InOrderValues(_, _, _)
RECURSIVE InOrderChildValues(_, _, _, _)
InOrderValues(f, off, fuel) ==
    IF fuel = 0 \/ off < 0 \/ off % PAGE_SIZE # 0 \/ PageIndex(off) > Len(f) THEN <<>>
    ELSE IF f[PageIndex(off)].kind = "Leaf"
    THEN (IF f[PageIndex(off)].data < 0 \/ PageIndex(f[PageIndex(off)].data) > Len(f)
          THEN <<>>
          ELSE f[PageIndex(f[PageIndex(off)].data)].values)
    ELSE IF f[PageIndex(off)].kind = "Internal"
    THEN InOrderChildValues(f, f[PageIndex(off)].children, 1, fuel - 1)
    ELSE <<>>

InOrderChildValues(f, children, i, fuel) ==
    IF i > Len(children) THEN <<>>
    ELSE InOrderValues(f, children[i], fuel) \o InOrderChildValues(f, children, i + 1, fuel)

\* how many times x occurs in the sequence
Occurrences(seq, x) == Cardinality({i \in 1..Len(seq) : seq[i] = x})

(***************************************************************************)
(* C25  Duplicate insert does not overwrite: insert(k, v2) on a tree that  *)
(* already holds k adds a second leaf pair for k; every successful insert  *)
(* increases the number of leaf pairs reachable from the live root by      *)
(* exactly one and the number of stored values by exactly one.             *)
(***************************************************************************)
C25_DuplicateInsert ==
    [][ (last'.op = "insert" /\ last'.err = Ok) =>
            /\ Len(InOrderKeys(file', wal', Len(file'))) = Len(LiveKeySeq) + 1
            /\ Occurrences(InOrderKeys(file', wal', Len(file')), last'.key)
                   = Occurrences(LiveKeySeq, last'.key) + 1
            /\ \A k \in AllKeys \ {last'.key} :
                   Occurrences(InOrderKeys(file', wal', Len(file')), k)
                       = Occurrences(LiveKeySeq, k)
            /\ Len(InOrderValues(file', wal', Len(file')))
                   = Len(InOrderValues(file, wal, Len(file))) + 1
            /\ Occurrences(InOrderValues(file', wal', Len(file')), last'.value) = 1
      ]_vars

C25_Witness ==
    /\ last.op = "insert" /\ last.err = Ok /\ b >= 2
    /\ Len(inserted[last.key]) = 2
    /\ removed[last.key] = 0
    /\ Occurrences(LiveKeySeq, last.key) = 2
    /\ Len(InOrderValues(file, wal, Len(file))) >= 3

\* the write_page calls of a log that returned an offset, in call order
AppendSeq(log) == SelectSeq(log, LAMBDA e : e.ev = "append")

(***************************************************************************)
(* C26  Pager offsets: on a fresh Pager the n-th write_page call returns   *)
(* offset (n-1)*PAGE_SIZE and advances the cursor by PAGE_SIZE; get_page   *)
(* and write_page_at_offset never change the cursor; hence every offset    *)
(* returned is a distinct multiple of PAGE_SIZE and the file size never    *)
(* decreases.  The pages on file are the write_page calls made since the   *)
(* Pager was opened, so the n-th call is the one that writes page n.       *)
(***************************************************************************)
C26_PagerOffsets ==
    /\ [](cursor = Len(file) * PAGE_SIZE)
    /\ [][ /\ \A k \in 1..Len(AppendSeq(last'.log)) :
                  /\ AppendSeq(last'.log)[k].off = (Len(file) + k - 1) * PAGE_SIZE
                  /\ AppendSeq(last'.log)[k].off % PAGE_SIZE = 0
           /\ \A j, k \in 1..Len(AppendSeq(last'.log)) :
                  (j # k) => AppendSeq(last'.log)[j].off # AppendSeq(last'.log)[k].off
           /\ cursor' = cursor + Len(AppendSeq(last'.log)) * PAGE_SIZE
           /\ Len(file') = Len(file) + Len(AppendSeq(last'.log))
           /\ Len(file') >= Len(file)
      ]_vars

C26_Witness ==
    /\ built /\ last.op = "insert" /\ last.err = Ok
    /\ Len(AppendSeq(last.log)) >= 4
    /\ \E i \in 1..Len(last.log) : last.log[i].ev = "overwrite"
    /\ last.cursor_before >= 4 * PAGE_SIZE
    /\ cursor = last.cursor_before + Len(AppendSeq(last.log)) * PAGE_SIZE

\* the node pages (not data pages) appended by the call of the step, in call order
NodeAppends ==
    SelectSeq(AppendSeq(last'.log), LAMBDA e : file'[PageIndex(e.off)].kind # "Data")

\* position i of the log of the step is the parent read of borrow_if_needed:
\* the read that follows the rewrite of the copied leaf
BorrowParentRead(i) ==
    /\ i > 1
    /\ last'.log[i].ev = "read"
    /\ last'.log[i - 1].ev = "overwrite"
    /\ file'[PageIndex(last'.log[i - 1].off)].kind = "Leaf"

(***************************************************************************)
(* C27  Delete spine linkage: during delete, every child copied on the     *)
(* descent is written with parent_offset equal to the offset of its copied *)
(* parent in the same operation, so borrow_if_needed always reads and      *)
(* rewrites a parent page appended by this operation and never a page of   *)
(* the previously live version.                                            *)
(***************************************************************************)
C27_SpineLinkage ==
    [][ (last'.op = "delete") =>
            /\ \A k \in 2..Len(NodeAppends) :
                   /\ file'[PageIndex(NodeAppends[k].off)].is_root = FALSE
                   /\ file'[PageIndex(NodeAppends[k].off)].parent = NodeAppends[k - 1].off
                   /\ NodeAppends[k - 1].off >= cursor
            /\ \A i \in 1..Len(last'.log) :
                   BorrowParentRead(i) =>
                       /\ last'.log[i].off >= cursor
                       /\ last'.log[i].off \in AppendedNext
                       /\ last'.log[i].off = file'[PageIndex(last'.log[i - 1].off)].parent
                       /\ last'.log[i - 1].off
                              \in {file'[PageIndex(last'.log[i].off)].children[c] :
                                      c \in 1..Len(file'[PageIndex(last'.log[i].off)].children)}
            /\ \A i \in 1..Len(last'.log) :
                   (last'.log[i].ev = "overwrite") => last'.log[i].off >= cursor
      ]_vars

C27_Witness ==
    /\ last.op = "delete" /\ b >= 2
    /\ \E i \in 2..Len(last.log) :
           /\ last.log[i].ev = "read"
           /\ last.log[i - 1].ev = "overwrite"
           /\ PageAt(last.log[i - 1].off).kind = "Leaf"
           /\ last.log[i].off >= last.cursor_before
           /\ PageAt(last.log[i].off).kind = "Internal"

\* the parent P of the node the descent has reached, as it is on file
BorrowParent == PageAt(PageAt(last.value).parent)

\* the child index (from 0) of the node the descent has reached
BorrowIndex ==
    CHOOSE i \in 0..(Len(BorrowParent.children) - 1) : BorrowParent.children[i + 1] = last.value

\* the sibling borrow_if_needed chooses
BorrowSiblingIndex == IF BorrowIndex > 0 THEN BorrowIndex - 1 ELSE BorrowIndex + 1

\* the step merges an underflowing internal node under a parent that stays:
\* a parent that is not a root left with the merged node as its only child
MergesUnderStayingParent ==
    /\ last.op = "descend"
    /\ last'.op = "borrow" /\ ~last'.injected
    /\ PageAt(last.value).kind = "Internal"
    /\ is_node_underflow(PageToNode(PageAt(last.value)), b)
    /\ ~(BorrowParent.is_root /\ Len(BorrowParent.children) = 2)

C28_MergeParentUpdateInner ==
    [][ (MergesUnderStayingParent /\ BorrowIndex < Len(BorrowParent.keys)) =>
            /\ last'.err = Ok
            /\ Len(file'[PageIndex(PageAt(last.value).parent)].children)
                   = Len(BorrowParent.children) - 1
            /\ Len(file'[PageIndex(PageAt(last.value).parent)].keys)
                   = Len(BorrowParent.keys) - 1
            /\ file'[PageIndex(PageAt(last.value).parent)]
                   .children[Min(BorrowIndex, BorrowSiblingIndex) + 1] = cursor
      ]_vars

\* the step is a borrow_if_needed call that wrote the node merged from two
\* internal siblings: the page it appended at the old cursor
WroteMergedInternal ==
    /\ last.op = "descend" /\ last'.op = "borrow"
    /\ cursor \in AppendedNext
    /\ file'[PageIndex(cursor)].kind = "Internal"

\* the keys of the page are strictly ascending
KeysAscending(page) ==
    \A i, j \in 1..Len(page.keys) : (i < j) => KeyLt(page.keys[i], page.keys[j])

C30_RootFlag ==
    (built /\ AllCallsOk) =>
        /\ PageAt(wal).kind \in {"Leaf", "Internal"}
        /\ PageAt(wal).is_root = TRUE
        /\ PageToNode(PageAt(wal)).parent = NoOffset
        /\ \A n \in LiveNodes : (n.off # wal) => PageAt(n.off).is_root = FALSE

C30_Witness ==
    /\ AllCallsOk /\ b >= 2
    /\ last.op = "delete"
    /\ HeightFrom(file, wal) = 2
    /\ Cardinality(LiveNodes) >= 7
    /\ wal # last.root_before

(***************************************************************************)
(* C31  Leaf and data page stay the same length: after any sequence of     *)
(* successful insert and delete calls, for every leaf reachable from the   *)
(* live root the number of values in its data page equals the number of    *)
(* its pairs (so the positional remove in delete never indexes past the    *)
(* end of the values).                                                     *)
(***************************************************************************)
C31_SameLength ==
    (built /\ AllCallsOk) =>
        \A n \in LiveNodes :
            (PageAt(n.off).kind = "Leaf") =>
                /\ PageAt(n.off).data >= 0
                /\ PageIndex(PageAt(n.off).data) <= Len(file)
                /\ PageAt(PageAt(n.off).data).kind = "Data"
                /\ Len(LeafValues(n.off)) = Len(PageAt(n.off).pairs)

C31_Witness ==
    /\ AllCallsOk /\ b >= 2
    /\ last.op = "delete"
    /\ PageAt(wal).kind = "Internal"
    /\ Cardinality(LeavesFrom(file, wal)) >= 2
    /\ \E n \in LeavesFrom(file, wal) : Len(PageAt(n.off).pairs) >= 2
    /\ \A n \in LeavesFrom(file, wal) : Len(LeafValues(n.off)) = Len(PageAt(n.off).pairs)
    /\ \E k \in AllKeys : Len(inserted[k]) >= 1 /\ removed[k] >= 1

\* the nodes insert_non_full was handed during the call of the log, full or not
Invocations(log) == {i \in 1..Len(log) : log[i].ev \in {"enter", "enter_full"}}

\* no insert_non_full invocation of the step's insert got a full node, and no
\* live node is left with more than 2b-1 keys or pairs
NonFullInvocations ==
    /\ \A i \in Invocations(last'.log) : last'.log[i].ev = "enter"
    /\ (last'.err = Ok) =>
           \A n \in ReachFrom(file', wal', 0) :
               NodeLen(PageToNode(file'[PageIndex(n.off)])) <= 2 * b - 1

(***************************************************************************)
(* C32  insert_non_full precondition: for every b that build() accepts     *)
(* (b >= 1), every invocation of insert_non_full during an insert, the     *)
(* recursive ones made right after a root or child split included,         *)
(* receives a node that is not full, so no node ever ends an insert with   *)
(* more than 2b-1 keys or pairs.                                           *)
(***************************************************************************)
C32_NonFullPrecondition ==
    [][ (b >= 1 /\ last'.op = "insert") => NonFullInvocations ]_vars

\* the same, for the trees built with b >= 2
C32_NonFullPreconditionB2 ==
    [][ (b >= 2 /\ last'.op = "insert") => NonFullInvocations ]_vars

\* shifting the bytes offset..=end_offset right by size writes past the last
\* byte of the page
WritesPastEnd(offset, end_offset, size) ==
    offset <= end_offset /\ end_offset + size > PAGE_SIZE - 1

BytesBoundsSafe ==
    /\ WritesPastEnd(last'.offset, last'.end_offset, last'.size) =>
           (last'.err = UnexpectedError /\ last'.data = last.data)
    /\ last'.index < PAGE_SIZE

(***************************************************************************)
(* C33  Page byte insertion is bounds-safe: insert_bytes_at_offset(bytes,  *)
(* offset, end_offset, size) returns UnexpectedError and leaves the page   *)
(* unchanged whenever shifting the bytes offset..=end_offset right by size *)
(* would write past the last byte of the page, and never indexes outside   *)
(* the page (the case end_offset + size = PAGE_SIZE included).             *)
(***************************************************************************)
C33_BytesBoundsSafe ==
    [][ (last'.op = "insert_bytes_at_offset") => BytesBoundsSafe ]_vars

\* the same, for the calls with a range to shift that does not end exactly
\* at the last byte of the page
C33_BytesBoundsSafeInside ==
    [][ ( /\ last'.op = "insert_bytes_at_offset"
          /\ last'.offset <= last'.end_offset
          /\ last'.end_offset + last'.size # PAGE_SIZE ) => BytesBoundsSafe ]_vars

====
